---- MODULE Spec2Model ----
(***************************************************************************)
(* daystats: the two-stage fetch-and-filter pipeline of                    *)
(* src/daystats/daystats.py (window builder, contribution fetcher, paged   *)
(* pull request fetcher, orchestrator, renderers).                         *)
(***************************************************************************)
EXTENDS Integers, Sequences, FiniteSets, TLC

VARIABLES
    pc,          \* position of the running call
    raised,      \* name of the exception that left the call, or "None"
    author,      \* _fetch_pull_requests: author
    repoowner,   \* _fetch_pull_requests: repoowner
    reponame,    \* _fetch_pull_requests: reponame
    start_dt,    \* _fetch_pull_requests: start_dt (an instant)
    end_dt,      \* _fetch_pull_requests: end_dt (an instant)
    cursor,      \* _fetch_pull_requests: cursor
    more,        \* _fetch_pull_requests: more
    prs,         \* _fetch_pull_requests: prs
    origin,      \* history: the node each element of prs was built from
    result,      \* value returned by the last finished fetch call
    requests,    \* history: the queries handed to _HTTPClient.post, in order
    last,        \* history: what the latest pull request POST of the call brought back
    pending,     \* _fetch_pull_requests: nodes of the current page not yet iterated
    edge,        \* history: an author's node created exactly at start_dt or end_dt was processed
    serverPRs,   \* the pull requests the server holds for the repository
    now,         \* datetime.datetime.now() of the run
    year,        \* CLI / get_stats argument year (None or an int)
    month,       \* CLI / get_stats argument month
    day,         \* CLI / get_stats argument day
    window,      \* what _build_bookend_times returned: <<start_dt, end_dt>>
    zone,        \* the machine's time zone: time.timezone, altzone, daylight, and DST now
    loginname,   \* get_stats / _fetch_contributions: loginname
    answer,      \* history: the parsed response to the contributions query
    contribs,    \* the Contributions _fetch_contributions returned
    todo,        \* get_stats: repositories of contribs.pr_repos not yet iterated
    pull_requests, \* get_stats / generate_output: pull_requests
    output       \* the rows generate_output joined, or <<>>

callVars == <<author, repoowner, reponame, start_dt, end_dt>>
windowVars == <<now, year, month, day, window>>
statsVars == <<zone, loginname, answer, contribs, todo, pull_requests>>
renderVars == <<output>>

vars == <<pc, raised, author, repoowner, reponame, start_dt, end_dt, cursor,
          more, prs, origin, result, requests, last,
          pending, edge, serverPRs, now, year, month, day, window,
          zone, loginname, answer, contribs, todo, pull_requests, output>>

\* ---------------------------------------------------------------- bounds
MaxNodes == 2
MaxRequests == 3
MaxPRs == 3
MaxEntries == 3
MaxStatsRequests == 4
MaxRows == 3

\* ---------------------------------------------------------------- values
\* Python's None / JSON null.
Null == [null |-> TRUE]

SeqsUpTo(S, n) == UNION {[1..k -> S] : k \in 0..n}

Min(a, b) == IF a < b THEN a ELSE b

\* Login names are sequences of characters, so that str.lower is computed.
LowerChar(c) ==
    CASE c = "P" -> "p"
      [] c = "R" -> "r"
      [] c = "O" -> "o"
      [] c = "C" -> "c"
      [] OTHER -> c

Lower(s) == [i \in DOMAIN s |-> LowerChar(s[i])]

\* Two logins are the same login up to the case of each character.
EqualIgnoringCase(a, b) ==
    /\ Len(a) = Len(b)
    /\ \A i \in DOMAIN a : LowerChar(a[i]) = LowerChar(b[i])

\* createdAt on the wire: ISO-8601 text naming an instant, with a "Z" suffix.
WireTime(t) == [text |-> t, suffix |-> "Z"]

\* str.rstrip("Z")
RStripZ(s) == [s EXCEPT !.suffix = ""]

\* datetime.datetime.fromisoformat of the stripped text: the instant it names.
FromIsoFormat(s) == s.text

\* ------------------------------------------------------------- transport
\* What the network does with one POST: the socket fails or times out, or a
\* body arrives that is JSON (doc) or is not.
SocketError == [kind |-> "socket_error"]
NonJsonBody == [kind |-> "body", json |-> FALSE]
JsonBody(doc) == [kind |-> "body", json |-> TRUE, doc |-> doc]

\* _HTTPClient.post: connection.request / getresponse raise on a socket
\* failure (nothing catches it); a body that is not JSON gives {"error": ...}.
Post(raw) ==
    IF raw.kind = "socket_error"
    THEN [raised |-> "OSError"]
    ELSE IF ~raw.json
         THEN [raised |-> "None", value |-> [error |-> "JSONDecodeError"]]
         ELSE [raised |-> "None", value |-> raw.doc]

\* --------------------------------------------------- pull request fetcher
first == 25

CreatePullRequestQueryNoCursor(owner_, name_, cursor_) ==
    [kind |-> "pullRequests",
     variables |-> [cursor |-> Null, repoowner |-> owner_, reponame |-> name_]]

CreatePullRequestQuery(owner_, name_, cursor_) ==
    [kind |-> "pullRequests",
     variables |-> [cursor |-> cursor_, repoowner |-> owner_, reponame |-> name_]]

PullRequest(reponame_, node) ==
    [reponame |-> reponame_,
     additions |-> node.additions,
     deletions |-> node.deletions,
     files |-> node.changedFiles,
     created_at |-> node.createdAt,
     number |-> node.number,
     url |-> node.url]

\* What _fetch_pull_requests returns on a response without "data".
PartialResult == prs

EmptyResult == <<>>

\* The head of one pass of "while more": what the parsed response makes of
\* the call, [kind |-> "return" | "raise" | "page", ...].  A page document
\* carries the number of its nodes; the nodes are read as they are iterated.
AfterPost(resp_json) ==
    IF "data" \notin DOMAIN resp_json
    THEN [kind |-> "return", value |-> EmptyResult]
    ELSE IF resp_json.data = Null \/ resp_json.data.repository = Null
         THEN [kind |-> "raise", raised |-> "TypeError"]
         ELSE LET rjson == resp_json.data.repository.pullRequests
              IN [kind |-> "page",
                  cursor |-> rjson.pageInfo.endCursor,
                  more |-> rjson.pageInfo.hasNextPage,
                  count |-> rjson.nodes]

\* One pass of the body of "for node in rjson['nodes']" on the loop state
\* st = [more, prs, origin, raised].
ProcessNodeStopsAtNewer(st, node, author_, reponame_, start, end) ==
    IF node.author = Null
    THEN [st EXCEPT !.raised = "TypeError"]
    ELSE LET created_at == FromIsoFormat(RStripZ(node.createdAt))
         IN IF Lower(node.author.login) # Lower(author_)
            THEN st
            ELSE IF ~(end > created_at /\ created_at > start)
                 THEN [st EXCEPT !.more = FALSE]
                 ELSE [st EXCEPT !.prs = Append(@, PullRequest(reponame_, node)),
                                 !.origin = Append(@, node)]

ProcessNodeKeepsPagingAtStart(st, node, author_, reponame_, start, end) ==
    IF node.author = Null
    THEN [st EXCEPT !.raised = "TypeError"]
    ELSE LET created_at == FromIsoFormat(RStripZ(node.createdAt))
         IN IF Lower(node.author.login) # Lower(author_)
            THEN st
            ELSE IF ~(end > created_at /\ created_at > start)
                 THEN [st EXCEPT !.more = created_at >= start]
                 ELSE [st EXCEPT !.prs = Append(@, PullRequest(reponame_, node)),
                                 !.origin = Append(@, node)]

ProcessNodeInclusive(st, node, author_, reponame_, start, end) ==
    IF node.author = Null
    THEN [st EXCEPT !.raised = "TypeError"]
    ELSE LET created_at == FromIsoFormat(RStripZ(node.createdAt))
         IN IF Lower(node.author.login) # Lower(author_)
            THEN st
            ELSE IF ~(end >= created_at /\ created_at >= start)
                 THEN [st EXCEPT !.more = created_at > start]
                 ELSE [st EXCEPT !.prs = Append(@, PullRequest(reponame_, node)),
                                 !.origin = Append(@, node)]

ProcessNode(st, node, author_, reponame_, start, end) ==
    IF node.author = Null
    THEN [st EXCEPT !.raised = "TypeError"]
    ELSE LET created_at == FromIsoFormat(RStripZ(node.createdAt))
         IN IF Lower(node.author.login) # Lower(author_)
            THEN st
            ELSE IF ~(end > created_at /\ created_at > start)
                 THEN [st EXCEPT !.more = created_at > start]
                 ELSE [st EXCEPT !.prs = Append(@, PullRequest(reponame_, node)),
                                 !.origin = Append(@, node)]

\* history only: the shape of what a POST brought back.
Shape(resp) ==
    IF resp.raised # "None"
    THEN [kind |-> "raise", hasNextPage |-> FALSE]
    ELSE IF "data" \notin DOMAIN resp.value
         THEN [kind |-> "nodata", hasNextPage |-> FALSE]
         ELSE IF resp.value.data = Null \/ resp.value.data.repository = Null
              THEN [kind |-> "null", hasNextPage |-> FALSE]
              ELSE [kind |-> "page",
                    hasNextPage |-> resp.value.data.repository.pullRequests.pageInfo.hasNextPage,
                    endCursor |-> resp.value.data.repository.pullRequests.pageInfo.endCursor]

\* history only: node is a node of the author created exactly at a bound.
OnEdge(node) ==
    /\ node.author # Null
    /\ EqualIgnoringCase(node.author.login, author)
    /\ node.createdAt.text \in {start_dt, end_dt}

\* The head of one pass of "while more" in _fetch_pull_requests: build the
\* query, post it, check for "data", take cursor and more from pageInfo.
PostPage(raw) ==
    /\ pc = "page"
    /\ requests' = Append(requests, CreatePullRequestQuery(repoowner, reponame, cursor))
    /\ LET resp == Post(raw)
           out == IF resp.raised # "None"
                  THEN [kind |-> "raise", raised |-> resp.raised]
                  ELSE AfterPost(resp.value)
       IN /\ last' = Shape(resp)
          /\ CASE out.kind = "raise" ->
                    /\ pc' = "raised"
                    /\ raised' = out.raised
                    /\ UNCHANGED <<cursor, more, result, pending>>
               [] out.kind = "return" ->
                    /\ pc' = "ret"
                    /\ result' = out.value
                    /\ UNCHANGED <<raised, cursor, more, pending>>
               [] out.kind = "page" ->
                    /\ pc' = "nodes"
                    /\ cursor' = out.cursor
                    /\ more' = out.more
                    /\ pending' = out.count
                    /\ UNCHANGED <<raised, result>>
    /\ UNCHANGED <<callVars, prs, origin, edge, serverPRs, windowVars, statsVars,
                   renderVars>>

\* One pass of "for node in rjson['nodes']" on the next node of the page.
ForNode(node) ==
    /\ pc = "nodes"
    /\ pending > 0
    /\ pending' = pending - 1
    /\ edge' = (edge \/ OnEdge(node))
    /\ LET st == ProcessNode([more |-> more, prs |-> prs, origin |-> origin,
                              raised |-> "None"],
                             node, author, reponame, start_dt, end_dt)
       IN /\ more' = st.more
          /\ prs' = st.prs
          /\ origin' = st.origin
          /\ raised' = st.raised
          /\ pc' = IF st.raised # "None" THEN "raised" ELSE "nodes"
    /\ UNCHANGED <<callVars, cursor, result, requests, last, serverPRs,
                   windowVars, statsVars, renderVars>>

\* The page is exhausted: "while more" is tested again, and "return prs".
WhileMore ==
    /\ pc = "nodes"
    /\ pending = 0
    /\ IF more
       THEN pc' = "page" /\ UNCHANGED result
       ELSE pc' = "ret" /\ result' = prs
    /\ UNCHANGED <<raised, callVars, cursor, more, prs, origin, requests, last,
                   pending, edge, serverPRs, windowVars, statsVars, renderVars>>

\* ------------------------------------------------ pull request documents
MkNode(author_, t, n) ==
    [author |-> author_,
     createdAt |-> WireTime(t),
     updatedAt |-> WireTime(t),
     additions |-> n,
     deletions |-> 2 * n,
     changedFiles |-> n + 1,
     url |-> <<"pull", n>>,
     number |-> n]

PageDoc(count, endCursor, hasNextPage) ==
    [data |-> [repository |-> [pullRequests |->
        [pageInfo |-> [endCursor |-> endCursor, hasNextPage |-> hasNextPage],
         nodes |-> count]]]]

Author == <<"P", "r">>
Logins == {<<"p", "R">>, <<"o", "c">>}
Instants == 0..4
Windows == {<<1, 3>>, <<1, 2>>, <<2, 2>>, <<3, 1>>}

\* Any node at all, an authorless one (a deleted account) included.
AnyNodes ==
    {MkNode(a, t, 1) : a \in {Null} \cup {[login |-> l] : l \in Logins},
                       t \in Instants}

AnyPages ==
    {PageDoc(k, c, h) : k \in 0..MaxNodes, c \in {Null, [after |-> 1]},
                        h \in BOOLEAN}

ErrorDocs ==
    {[errors |-> "Bad credentials"], [data |-> Null], [data |-> [repository |-> Null]]}

AnyRaw ==
    {SocketError, NonJsonBody} \cup {JsonBody(d) : d \in ErrorDocs \cup AnyPages}

\* ------------------------- _fetch_pull_requests against any responses
InitCall ==
    /\ pc = "page"
    /\ raised = "None"
    /\ author = Author
    /\ repoowner = "Preocts"
    /\ reponame = "daystats"
    /\ \E w \in Windows : start_dt = w[1] /\ end_dt = w[2]
    /\ cursor = Null
    /\ more = TRUE
    /\ prs = <<>>
    /\ origin = <<>>
    /\ result = <<>>
    /\ requests = <<>>
    /\ last = [kind |-> "none", hasNextPage |-> FALSE]
    /\ pending = 0
    /\ edge = FALSE

\* The variables of the rest of the program, at rest.
IdleWindow ==
    /\ now = Null
    /\ year = <<>>
    /\ month = <<>>
    /\ day = <<>>
    /\ window = <<>>

IdleStats ==
    /\ zone = Null
    /\ loginname = <<>>
    /\ answer = Null
    /\ contribs = Null
    /\ todo = {}
    /\ pull_requests = <<>>

IdleRender == output = [markdown |-> FALSE, rows |-> <<>>]

InitFetch ==
    /\ InitCall
    /\ serverPRs = <<>>
    /\ IdleWindow
    /\ IdleStats
    /\ IdleRender

PostAny ==
    /\ Len(requests) < MaxRequests
    /\ \E raw \in AnyRaw : PostPage(raw)

ForNodeAny == \E node \in AnyNodes : ForNode(node)

NextFetch == PostAny \/ ForNodeAny \/ WhileMore

SpecFetch == InitFetch /\ [][NextFetch]_vars

\* C1: every record _fetch_pull_requests returns was built from a received
\* node whose author login equals author ignoring case and whose created_at
\* lies strictly between start_dt and end_dt (neither bound included).
ReturnedAreAuthorsInsideWindow ==
    pc = "ret" =>
        /\ Len(result) <= Len(origin)
        /\ \A i \in DOMAIN result :
              /\ result[i] = PullRequest(reponame, origin[i])
              /\ origin[i].author # Null
              /\ EqualIgnoringCase(origin[i].author.login, author)
              /\ start_dt < result[i].created_at.text
              /\ result[i].created_at.text < end_dt

\* A call returned records although a node of the author created exactly at
\* start_dt or end_dt had been processed.
ReturnedWithEdgeNodeSeen ==
    pc = "ret" /\ Len(result) >= 1 /\ edge /\ Len(requests) >= 2

\* C3: a page response without "data" makes the call return the empty list,
\* whatever earlier pages collected, and no request follows it.
NoPartialResults ==
    [][/\ (last'.kind = "nodata" => pc' = "ret" /\ result' = <<>>)
       /\ (last.kind = "nodata" => requests' = requests)]_vars

\* A later page lacked "data" after an earlier page had collected records.
NoDataAfterCollecting ==
    /\ last.kind = "nodata"
    /\ Len(prs) >= 1
    /\ Len(requests) >= 2
    /\ pc = "ret"
    /\ result = <<>>

\* ------------------- _fetch_pull_requests against a well-behaved server
\* The server holds the repository's pull requests newest first.
NewestFirst(times) == \A i \in 1..(Len(times) - 1) : times[i] >= times[i + 1]

ServerLists ==
    UNION {{[i \in 1..n |-> MkNode([login |-> ls[i]], ts[i], n - i + 1)] :
               ls \in [1..n -> Logins],
               ts \in {t \in [1..n -> Instants] : NewestFirst(t)}} :
           n \in 0..MaxPRs}

InitServer ==
    /\ InitCall
    /\ serverPRs \in ServerLists
    /\ IdleWindow
    /\ IdleStats
    /\ IdleRender

\* pullRequests(first:25, after:$cursor): the position the cursor names, then
\* a page of at most first nodes from there (none when nothing is left).
CursorPosition(c) == IF c = Null THEN 0 ELSE c.after

ServerPage(c, k) ==
    LET pos == CursorPosition(c)
    IN PageDoc(k,
               IF k = 0 THEN Null ELSE [after |-> pos + k],
               pos + k < Len(serverPRs))

PageSizes(c) ==
    LET left == Len(serverPRs) - CursorPosition(c)
    IN IF left = 0 THEN {0} ELSE 1..Min(first, left)

PostServer == \E k \in PageSizes(cursor) : PostPage(JsonBody(ServerPage(cursor, k)))

ForNodeServer ==
    /\ pc = "nodes"
    /\ pending > 0
    /\ ForNode(serverPRs[CursorPosition(cursor) - pending + 1])

NextServer == PostServer \/ ForNodeServer \/ WhileMore

SpecServer == InitServer /\ [][NextServer]_vars

InsideWindowByAuthor(node) ==
    /\ EqualIgnoringCase(node.author.login, author)
    /\ start_dt < node.createdAt.text
    /\ node.createdAt.text < end_dt

Expected ==
    LET sel == SelectSeq(serverPRs, InsideWindowByAuthor)
    IN [i \in DOMAIN sel |-> PullRequest(reponame, sel[i])]

\* C2: against a server that holds a finite newest-first list and serves it
\* in pages of at most 25 honouring the cursor, the call returns exactly the
\* author's pull requests created strictly inside the window, each once, in
\* server order.
ReturnsExactlyTheMatching == pc = "ret" => result = Expected

\* A call over several pages that kept some of the server's pull requests and
\* dropped others.
ReturnedSomeOverPages ==
    /\ pc = "ret"
    /\ Len(requests) >= 2
    /\ Len(result) >= 2
    /\ Len(result) < Len(serverPRs)

\* ------------------------------------------------------- window builder
\* An optional int argument: None is <<>>, the int v is <<v>>.
None == <<>>
Some(v) == <<v>>

\* Python truthiness of an optional int: None and 0 are falsy.
Truthy(arg) == arg # None /\ arg[1] # 0

IsLeap(y) == y % 4 = 0 /\ (y % 100 # 0 \/ y % 400 = 0)

DaysInMonth(y, m) ==
    IF m = 2 THEN (IF IsLeap(y) THEN 29 ELSE 28)
    ELSE IF m \in {4, 6, 9, 11} THEN 30 ELSE 31

\* The date check of the datetime constructor (MINYEAR = 1, MAXYEAR = 9999).
ValidDate(y, m, d) ==
    /\ y >= 1 /\ y <= 9999
    /\ m >= 1 /\ m <= 12
    /\ d >= 1 /\ d <= DaysInMonth(y, m)

DateTime(y, m, d, hh, mm, ss, us) ==
    [year |-> y, month |-> m, day |-> d, hour |-> hh, minute |-> mm,
     second |-> ss, microsecond |-> us]

\* datetime.replace(...): the new value, or ValueError when the fields no
\* longer name a date.
Replaced(dt) ==
    IF ValidDate(dt.year, dt.month, dt.day)
    THEN [raised |-> "None", value |-> dt]
    ELSE [raised |-> "ValueError"]

\* _build_bookend_times(year, month, day) with datetime.now() = now_.
BuildBookendTimes(now_, year_, month_, day_) ==
    LET r1 == IF Truthy(year_)
              THEN Replaced([now_ EXCEPT !.year = year_[1]])
              ELSE [raised |-> "None", value |-> now_]
        r2 == IF r1.raised # "None" THEN r1
              ELSE IF Truthy(month_)
                   THEN Replaced([r1.value EXCEPT !.month = month_[1]])
                   ELSE r1
        r3 == IF r2.raised # "None" THEN r2
              ELSE IF Truthy(day_)
                   THEN Replaced([r2.value EXCEPT !.day = day_[1]])
                   ELSE r2
    IN IF r3.raised # "None" THEN r3
       ELSE [raised |-> "None",
             value |-> <<[r3.value EXCEPT !.hour = 0, !.minute = 0,
                                          !.second = 0, !.microsecond = 0],
                         [r3.value EXCEPT !.hour = 23, !.minute = 59,
                                          !.second = 59, !.microsecond = 0]>>]

\* The fetcher's variables, at rest.
IdleFetch ==
    /\ author = <<>>
    /\ repoowner = ""
    /\ reponame = ""
    /\ start_dt = 0
    /\ end_dt = 0
    /\ cursor = Null
    /\ more = FALSE
    /\ prs = <<>>
    /\ origin = <<>>
    /\ result = <<>>
    /\ requests = <<>>
    /\ last = [kind |-> "none", hasNextPage |-> FALSE]
    /\ pending = 0
    /\ edge = FALSE
    /\ serverPRs = <<>>

Todays ==
    {DateTime(y, m, d, 12, 23, 7, 5) :
        y \in {2023, 2024}, m \in {1, 2, 4, 12}, d \in {15, 28, 29, 30, 31}}

YearArgs == {None, Some(0), Some(2023), Some(2024), Some(10000)}
MonthArgs == {None, Some(0), Some(2), Some(4), Some(13)}
DayArgs == {None, Some(0), Some(-1), Some(15), Some(29), Some(31), Some(32)}

InitBookend ==
    /\ pc = "bookend"
    /\ raised = "None"
    /\ now \in {t \in Todays : ValidDate(t.year, t.month, t.day)}
    /\ year \in YearArgs
    /\ month \in MonthArgs
    /\ day \in DayArgs
    /\ window = <<>>
    /\ IdleFetch
    /\ IdleStats
    /\ IdleRender

\* A call of _build_bookend_times on its own.
CallBuildBookendTimes ==
    /\ pc = "bookend"
    /\ LET r == BuildBookendTimes(now, year, month, day)
       IN IF r.raised # "None"
          THEN pc' = "raised" /\ raised' = r.raised /\ UNCHANGED window
          ELSE pc' = "ret" /\ window' = r.value /\ UNCHANGED raised
    /\ UNCHANGED <<callVars, cursor, more, prs, origin, result, requests, last,
                   pending, edge, serverPRs, now, year, month, day, statsVars,
                   renderVars>>

NextBookend == CallBuildBookendTimes

SpecBookend == InitBookend /\ [][NextBookend]_vars

\* The date the arguments ask for: each given field overrides today's.
Given(arg, today) == IF arg = None THEN today ELSE arg[1]
TargetYear == Given(year, now.year)
TargetMonth == Given(month, now.month)
TargetDay == Given(day, now.day)
TargetExists == ValidDate(TargetYear, TargetMonth, TargetDay)

\* C5: whenever the given fields, overridden on today, name an existing
\* date, _build_bookend_times returns that date at 00:00:00 and at 23:59:59
\* (microsecond 0), whatever the intermediate combinations are.
BookendsOfEveryExistingDate ==
    (pc # "bookend" /\ TargetExists) =>
        /\ pc = "ret"
        /\ window = <<DateTime(TargetYear, TargetMonth, TargetDay, 0, 0, 0, 0),
                      DateTime(TargetYear, TargetMonth, TargetDay, 23, 59, 59, 0)>>

\* C6: whenever the given fields, overridden on today, name no existing
\* date (a field of 0 included), _build_bookend_times fails with the
\* invalid-date error and returns no window.
NonexistentDateFails ==
    (pc # "bookend" /\ ~TargetExists) =>
        /\ pc = "raised"
        /\ raised = "ValueError"
        /\ window = <<>>

\* ---------------------------------------------------- contribution fetcher
\* datetime.isoformat(), and the text with "Z" appended.
IsoFormat(dt) == [text |-> dt, suffix |-> ""]
PlusZ(s) == [s EXCEPT !.suffix = "Z"]

CreateContribQuery(loginname_, from_, to_) ==
    [kind |-> "contributions",
     variables |-> [loginname |-> loginname_, from_time |-> from_, to_time |-> to_]]

Repo(owner_, name_) == [owner |-> owner_, name |-> name_]

Contributions(commits_, issues_, pullrequests_, reviews_, pr_repos_) ==
    [commits |-> commits_, issues |-> issues_, pullrequests |-> pullrequests_,
     reviews |-> reviews_, pr_repos |-> pr_repos_]

\* "for pr in contribs[...]: pr_repos.add(Repo(...))" from entry i on.
RECURSIVE AddReposLastOnly(_, _, _)
AddReposLastOnly(pr_repos, entries, i) ==
    IF i > Len(entries)
    THEN pr_repos
    ELSE AddReposLastOnly({Repo(entries[i].repository.owner.login,
                                entries[i].repository.name)},
                          entries, i + 1)

RECURSIVE AddRepos(_, _, _)
AddRepos(pr_repos, entries, i) ==
    IF i > Len(entries)
    THEN pr_repos
    ELSE AddRepos(pr_repos \cup {Repo(entries[i].repository.owner.login,
                                      entries[i].repository.name)},
                  entries, i + 1)

\* What _fetch_contributions makes of the parsed response.
ContributionsOfNoCheck(resp_json) ==
    IF "data" \notin DOMAIN resp_json
    THEN [raised |-> "KeyError"]
    ELSE IF resp_json.data = Null \/ resp_json.data.user = Null
         THEN [raised |-> "TypeError"]
         ELSE LET c == resp_json.data.user.contributionsCollection
              IN [raised |-> "None",
                  value |-> Contributions(
                      c.totalCommitContributions,
                      c.totalIssueContributions,
                      c.totalPullRequestContributions,
                      c.totalPullRequestReviewContributions,
                      AddRepos({}, c.pullRequestContributionsByRepository, 1))]

ContributionsOf(resp_json) ==
    IF "data" \notin DOMAIN resp_json
    THEN [raised |-> "None", value |-> Contributions(0, 0, 0, 0, {})]
    ELSE IF resp_json.data = Null \/ resp_json.data.user = Null
         THEN [raised |-> "TypeError"]
         ELSE LET c == resp_json.data.user.contributionsCollection
              IN [raised |-> "None",
                  value |-> Contributions(
                      c.totalCommitContributions,
                      c.totalIssueContributions,
                      c.totalPullRequestContributions,
                      c.totalPullRequestReviewContributions,
                      AddRepos({}, c.pullRequestContributionsByRepository, 1))]

\* _fetch_contributions(client, loginname, window[1], window[2]); the caller
\* goes on at pc = after.
FetchContributions(raw, after) ==
    /\ requests' = Append(requests,
           CreateContribQuery(loginname, PlusZ(IsoFormat(window[1])),
                              PlusZ(IsoFormat(window[2]))))
    /\ LET resp == Post(raw)
           out == IF resp.raised # "None" THEN resp ELSE ContributionsOf(resp.value)
       IN /\ answer' = IF resp.raised # "None" THEN answer ELSE resp.value
          /\ IF out.raised # "None"
             THEN /\ pc' = "raised"
                  /\ raised' = out.raised
                  /\ UNCHANGED <<contribs, todo>>
             ELSE /\ pc' = after
                  /\ contribs' = out.value
                  /\ todo' = out.value.pr_repos
                  /\ UNCHANGED raised
    /\ UNCHANGED <<callVars, cursor, more, prs, origin, result, last, pending,
                   edge, serverPRs, windowVars, zone, loginname, pull_requests,
                   renderVars>>

\* ------------------------------------------------ contribution documents
ContribEntry(owner_, name_) ==
    [repository |-> [owner |-> [login |-> owner_], name |-> name_]]

ContribDoc(commits_, issues_, pullrequests_, reviews_, entries) ==
    [data |-> [user |-> [contributionsCollection |->
        [totalCommitContributions |-> commits_,
         totalIssueContributions |-> issues_,
         totalPullRequestContributions |-> pullrequests_,
         totalPullRequestReviewContributions |-> reviews_,
         pullRequestContributionsByRepository |-> entries]]]]

ContribErrorDocs ==
    {[errors |-> "Bad credentials"], [data |-> Null], [data |-> [user |-> Null]]}

Entries ==
    {ContribEntry(o, n) : o \in {"Preocts", "preocts"}, n \in {"daystats", "eggs"}}

ContribDocs ==
    {ContribDoc(c, i, p, r, es) : c \in {0, 5}, i \in {0, 1}, p \in {0, 2},
                                  r \in {0, 3}, es \in SeqsUpTo(Entries, MaxEntries)}

ContribRaw ==
    {SocketError, NonJsonBody} \cup {JsonBody(d) : d \in ContribErrorDocs \cup ContribDocs}

\* --------------------------------------- _fetch_contributions on its own
InitContrib ==
    /\ pc = "contrib"
    /\ raised = "None"
    /\ IdleFetch
    /\ now = Null
    /\ year = None
    /\ month = None
    /\ day = None
    /\ window \in {BuildBookendTimes(DateTime(1998, 12, 31, 12, 23, 0, 0),
                                     None, None, d).value : d \in {None, Some(30)}}
    /\ zone = Null
    /\ loginname \in {Author, <<"o", "c">>}
    /\ answer = Null
    /\ contribs = Null
    /\ todo = {}
    /\ pull_requests = <<>>
    /\ IdleRender

CallFetchContributions ==
    /\ pc = "contrib"
    /\ \E raw \in ContribRaw : FetchContributions(raw, "ret")

NextContrib == CallFetchContributions

SpecContrib == InitContrib /\ [][NextContrib]_vars

Range(f) == {f[i] : i \in DOMAIN f}

HasData(doc) == doc # Null /\ "data" \in DOMAIN doc

\* C8: from a response that carries data, _fetch_contributions returns the
\* four counters as given and pr_repos equal to the set of distinct
\* (owner, name) pairs, case-sensitive, over all the entries.
CountersVerbatimReposDistinct ==
    (pc = "ret" /\ HasData(answer)) =>
        LET c == answer.data.user.contributionsCollection
        IN /\ contribs.commits = c.totalCommitContributions
           /\ contribs.issues = c.totalIssueContributions
           /\ contribs.pullrequests = c.totalPullRequestContributions
           /\ contribs.reviews = c.totalPullRequestReviewContributions
           /\ contribs.pr_repos =
                 {[owner |-> e.repository.owner.login, name |-> e.repository.name] :
                     e \in Range(c.pullRequestContributionsByRepository)}

\* Three entries, two of them the same pair and the third differing from it
\* only in the case of the owner, gave two repositories.
DuplicateEntriesOneRepo ==
    /\ pc = "ret"
    /\ HasData(answer)
    /\ LET es == answer.data.user.contributionsCollection.pullRequestContributionsByRepository
       IN /\ Len(es) = 3
          /\ es[1] = es[3]
          /\ es[2] = ContribEntry("preocts", "daystats")
          /\ es[1] = ContribEntry("Preocts", "daystats")
    /\ Cardinality(contribs.pr_repos) = 2
    /\ contribs.commits = 5

\* ------------------------------------------------------------ UTC offset
\* A machine's zone: time.timezone and time.altzone (seconds west of UTC),
\* time.daylight (nonzero when the zone defines a DST rule), and dst: DST is
\* in effect on the day of the run.
Zone(timezone_, altzone_, daylight_, dst_) ==
    [timezone |-> timezone_, altzone |-> altzone_, daylight |-> daylight_,
     dst |-> dst_]

Zones ==
    {Zone(0, 0, 0, FALSE),              \* UTC
     Zone(18000, 14400, 1, FALSE),      \* US Eastern, winter
     Zone(18000, 14400, 1, TRUE),       \* US Eastern, summer
     Zone(-3600, -7200, 1, TRUE),       \* Central Europe, summer
     Zone(-19800, -19800, 0, FALSE),    \* India
     Zone(12600, 9000, 1, TRUE)}        \* Newfoundland, summer

OFFSET(z) == IF z.daylight # 0 THEN z.altzone ELSE z.timezone

\* datetime.timedelta(hours=h), in seconds.
TimeDeltaHours(h) == h * 3600

UTC_OFFSET(z) == TimeDeltaHours((OFFSET(z) \div 60) \div 60)

\* A naive datetime as seconds on the time line, counted from 2023-01-01.
RECURSIVE DaysBeforeMonth(_, _)
DaysBeforeMonth(y, m) ==
    IF m = 1 THEN 0 ELSE DaysBeforeMonth(y, m - 1) + DaysInMonth(y, m - 1)

DaysBeforeYear(y) ==
    (y - 1) * 365 + ((y - 1) \div 4) - ((y - 1) \div 100) + ((y - 1) \div 400)

ToOrdinal(y, m, d) == DaysBeforeYear(y) + DaysBeforeMonth(y, m) + d

Timestamp(dt) ==
    (ToOrdinal(dt.year, dt.month, dt.day) - ToOrdinal(2023, 1, 1)) * 86400
        + dt.hour * 3600 + dt.minute * 60 + dt.second

\* ------------------------------------------------------------- get_stats
StatsTodays ==
    {DateTime(2023, 1, 31, 12, 23, 7, 5), DateTime(2024, 2, 29, 8, 0, 0, 0)}

InitStats ==
    /\ pc = "get_stats"
    /\ raised = "None"
    /\ IdleFetch
    /\ now \in StatsTodays
    /\ year \in {None, Some(2023)}
    /\ month \in {None, Some(2)}
    /\ day \in {None, Some(0), Some(15)}
    /\ window = <<>>
    /\ zone \in Zones
    /\ loginname = Author
    /\ answer = Null
    /\ contribs = Null
    /\ todo = {}
    /\ pull_requests = <<>>
    /\ IdleRender

\* get_stats, lines 320-324: the client and the window; ValueError is not
\* caught.
GetStatsWindow ==
    /\ pc = "get_stats"
    /\ LET r == BuildBookendTimes(now, year, month, day)
       IN IF r.raised # "None"
          THEN pc' = "raised" /\ raised' = r.raised /\ UNCHANGED window
          ELSE pc' = "contrib" /\ window' = r.value /\ UNCHANGED raised
    /\ UNCHANGED <<callVars, cursor, more, prs, origin, result, requests, last,
                   pending, edge, serverPRs, now, year, month, day, statsVars,
                   renderVars>>

StatsContribRaw ==
    {SocketError, NonJsonBody}
        \cup {JsonBody(d) : d \in ContribErrorDocs}
        \cup {JsonBody(ContribDoc(5, 1, 2, 0, es)) :
                 es \in {<<>>,
                         <<ContribEntry("Preocts", "daystats")>>,
                         <<ContribEntry("Preocts", "daystats"),
                           ContribEntry("Preocts", "eggs"),
                           ContribEntry("Preocts", "daystats")>>}}

\* get_stats, lines 326-327.
GetStatsContributions ==
    /\ pc = "contrib"
    /\ \E raw \in StatsContribRaw : FetchContributions(raw, "repos")

\* get_stats, lines 328-337: the next repository of the set, in whatever
\* order the set iterates, and the call of _fetch_pull_requests up to its loop.
GetStatsNextRepo ==
    /\ pc = "repos"
    /\ \E repo \in todo :
          /\ todo' = todo \ {repo}
          /\ author' = loginname
          /\ repoowner' = repo.owner
          /\ reponame' = repo.name
    /\ start_dt' = Timestamp(window[1]) + UTC_OFFSET(zone)
    /\ end_dt' = Timestamp(window[2]) + UTC_OFFSET(zone)
    /\ cursor' = Null
    /\ more' = TRUE
    /\ prs' = <<>>
    /\ origin' = <<>>
    /\ last' = [kind |-> "none", hasNextPage |-> FALSE]
    /\ pc' = "page"
    /\ UNCHANGED <<raised, result, requests, pending, edge, serverPRs,
                   windowVars, zone, loginname, answer, contribs, pull_requests,
                   renderVars>>

\* What the network may answer to a pull request query of the running call.
StatsNodes ==
    {MkNode(a, t, 1) : a \in {Null} \cup {[login |-> l] : l \in Logins},
                       t \in {start_dt, start_dt + 1}}

\* A page carries no end cursor or one of its own, naming its place in the
\* exchange.
StatsPages ==
    {PageDoc(k, c, h) : k \in 0..1, c \in {Null, [after |-> Len(requests)]},
                        h \in BOOLEAN}

StatsRaw ==
    {SocketError, NonJsonBody, JsonBody([data |-> [repository |-> Null]])}
        \cup {JsonBody(d) : d \in StatsPages}

GetStatsPostPage ==
    /\ Len(requests) < MaxStatsRequests
    /\ \E raw \in StatsRaw : PostPage(raw)

GetStatsForNode == \E node \in StatsNodes : ForNode(node)

\* get_stats, line 329: pull_requests.extend(<the list returned>).
GetStatsExtend ==
    /\ pc = "ret"
    /\ pull_requests' = pull_requests \o result
    /\ pc' = "repos"
    /\ UNCHANGED <<raised, callVars, cursor, more, prs, origin, result, requests,
                   last, pending, edge, serverPRs, windowVars, zone, loginname,
                   answer, contribs, todo, renderVars>>

\* get_stats, line 340.
GetStatsReturn ==
    /\ pc = "repos"
    /\ todo = {}
    /\ pc' = "done"
    /\ UNCHANGED <<raised, callVars, cursor, more, prs, origin, result, requests,
                   last, pending, edge, serverPRs, windowVars, statsVars,
                   renderVars>>

Next ==
    \/ GetStatsWindow
    \/ GetStatsContributions
    \/ GetStatsNextRepo
    \/ GetStatsPostPage
    \/ GetStatsForNode
    \/ WhileMore
    \/ GetStatsExtend
    \/ GetStatsReturn

Spec == InitStats /\ [][Next]_vars

\* C4: only an invalid date aborts get_stats; no failure of a fetch (socket
\* failure, non-JSON body, JSON without data, null or absent data or nested
\* field) makes it raise.
OnlyInvalidDateAborts ==
    pc = "raised" => (raised = "ValueError" /\ requests = <<>>)

\* The machine's local UTC offset on the day of the run, in seconds.
LocalUtcOffset(z) == IF z.dst THEN z.altzone ELSE z.timezone

\* C7: every pull request fetch of get_stats runs with the window shifted by
\* the machine's local UTC offset, whole hours or not, and the contributions
\* query carries the unshifted window.
FetchWindowShiftedByLocalOffset ==
    pc \in {"page", "nodes", "ret"} =>
        /\ start_dt = Timestamp(window[1]) + LocalUtcOffset(zone)
        /\ end_dt = Timestamp(window[2]) + LocalUtcOffset(zone)
        /\ requests[1].variables.from_time = [text |-> window[1], suffix |-> "Z"]
        /\ requests[1].variables.to_time = [text |-> window[2], suffix |-> "Z"]

\* C9: a contributions response without data gives all-zero counters and no
\* repository, without raising; get_stats then sends no pull request query
\* and returns no pull request.
NoDataGivesZeroesAndNoFetch ==
    (answer # Null /\ "data" \notin DOMAIN answer) =>
        /\ raised = "None"
        /\ pc \in {"repos", "done"}
        /\ contribs = [commits |-> 0, issues |-> 0, pullrequests |-> 0,
                       reviews |-> 0, pr_repos |-> {}]
        /\ Len(requests) = 1
        /\ pull_requests = <<>>

\* get_stats returned after a contributions response without data.
ReturnedAfterNoData ==
    /\ pc = "done"
    /\ answer # Null
    /\ "data" \notin DOMAIN answer
    /\ requests[1].kind = "contributions"

\* -------------------------------------------------------------- renderers
\* str(n) of an int n >= 0, as the sequence of its characters.
Digits == <<"0", "1", "2", "3", "4", "5", "6", "7", "8", "9">>

RECURSIVE Str(_)
Str(n) ==
    IF n < 10 THEN <<Digits[n + 1]>> ELSE Append(Str(n \div 10), Digits[(n % 10) + 1])

Spaces(n) == [i \in 1..n |-> " "]

\* The format spec ^w: centred in w columns, the odd space to the right;
\* text longer than w is left as it is.
Center(text, w) ==
    IF Len(text) >= w
    THEN text
    ELSE LET pad == w - Len(text)
             left == pad \div 2
         IN Spaces(left) \o text \o Spaces(pad - left)

\* sum(pr.<field> for pr in pull_requests)
RECURSIVE SumOf(_, _)
SumOf(values, i) == IF i > Len(values) THEN 0 ELSE values[i] + SumOf(values, i + 1)

TotalAdds(prs_) == SumOf([i \in DOMAIN prs_ |-> prs_[i].additions], 1)

TotalDelsFromAdditions(prs_) == SumOf([i \in DOMAIN prs_ |-> prs_[i].additions], 1)

TotalDels(prs_) == SumOf([i \in DOMAIN prs_ |-> prs_[i].deletions], 1)

TotalFiles(prs_) == SumOf([i \in DOMAIN prs_ |-> prs_[i].files], 1)

\* One element of the list that "\n".join turns into the report: its
\* literal text and the formatted values in it, left to right.
Row(text, cells) == [text |-> text, cells |-> cells]

\* _stats_to_markdown: the list summary_table.
StatsToMarkdown(contribs_, prs_) ==
    <<Row("**Daily GitHub Summary**:", <<>>),
      Row("| Contribution | Count | Metric | Total |", <<>>),
      Row("| -- | -- | -- | -- |", <<>>),
      Row("| Reviews | | Files Changed | |",
          <<Str(contribs_.reviews), Str(TotalFiles(prs_))>>),
      Row("| Issues | | Additions | |",
          <<Str(contribs_.issues), Str(TotalAdds(prs_))>>),
      Row("| Commits | | Deletions | |",
          <<Str(contribs_.commits), Str(TotalDels(prs_))>>),
      Row("| Pull Requests | | | |", <<Str(contribs_.pullrequests)>>),
      Row("**Pull Request Breakdown**:", <<>>),
      Row("| Repo | Addition | Deletion | Files | Number |", <<>>),
      Row("| -- | -- | -- | -- | -- |", <<>>)>>
    \o [i \in DOMAIN prs_ |->
          Row("| | | | | [see: #]() |",
              <<Str(prs_[i].additions), Str(prs_[i].deletions),
                Str(prs_[i].files), Str(prs_[i].number)>>)]

\* _stats_to_text: the list summary.  Its first element is two adjacent
\* literals (title and column heads) that Python joins into one string.
StatsToText(contribs_, prs_) ==
    <<Row("Daily GitHub Summary: |Contribution|Count|Metric|Total|", <<>>),
      Row("-", <<>>),
      Row("| Reviews| | Files Changed| |",
          <<Center(Str(contribs_.reviews), 7), Center(Str(TotalFiles(prs_)), 7)>>),
      Row("| Issue| | Additions| |",
          <<Center(Str(contribs_.issues), 7), Center(Str(TotalAdds(prs_)), 7)>>),
      Row("| Commits| | Deletions| |",
          <<Center(Str(contribs_.commits), 7), Center(Str(TotalDels(prs_)), 7)>>),
      Row("| Pull Requests| | | |",
          <<Center(Str(contribs_.pullrequests), 7)>>),
      Row("Pull Request Breakdown:", <<>>),
      Row("|Addition|Deletion|Files|Number| Url", <<>>),
      Row("-", <<>>)>>
    \o [i \in DOMAIN prs_ |->
          Row("| | | | | ",
              <<Center(Str(prs_[i].additions), 10), Center(Str(prs_[i].deletions), 10),
                Center(Str(prs_[i].files), 7), Center(Str(prs_[i].number), 8)>>)]

\* generate_output(contribs, pull_requests, markdown=markdown)
GenerateOutput(markdown) ==
    /\ pc = "render"
    /\ pc' = "rendered"
    /\ output' = [markdown |-> markdown,
                  rows |-> IF markdown
                           THEN StatsToMarkdown(contribs, pull_requests)
                           ELSE StatsToText(contribs, pull_requests)]
    /\ UNCHANGED <<raised, callVars, cursor, more, prs, origin, result, requests,
                   last, pending, edge, serverPRs, windowVars, statsVars>>

RenderPRs ==
    {[reponame |-> "mock", additions |-> a, deletions |-> d, files |-> f,
      created_at |-> WireTime(0), number |-> n, url |-> <<"pull", n>>] :
        a \in {0, 47}, d \in {12, 12345678}, f \in {10}, n \in {1, 5}}

InitRender ==
    /\ pc = "render"
    /\ raised = "None"
    /\ IdleFetch
    /\ IdleWindow
    /\ zone = Null
    /\ loginname = Author
    /\ answer = Null
    /\ contribs \in {Contributions(c, 1, 1, r, {}) : c \in {0, 5}, r \in {1, 100}}
    /\ todo = {}
    /\ pull_requests \in SeqsUpTo(RenderPRs, MaxRows)
    /\ output = [markdown |-> FALSE, rows |-> <<>>]

RenderMarkdown == GenerateOutput(TRUE)

RenderText == GenerateOutput(FALSE)

NextRender == RenderMarkdown \/ RenderText

SpecRender == InitRender /\ [][NextRender]_vars

\* Reading a formatted value back: drop the spaces, read the digits.
NoSpaces(cell) == SelectSeq(cell, LAMBDA ch : ch # " ")

DigitValue(ch) == CHOOSE d \in 0..9 : Digits[d + 1] = ch

RECURSIVE Parse(_, _)
Parse(digits, n) ==
    IF n = 0 THEN 0 ELSE 10 * Parse(digits, n - 1) + DigitValue(digits[n])

Value(cell) == Parse(NoSpaces(cell), Len(NoSpaces(cell)))

RECURSIVE FieldSum(_, _)
FieldSum(values, n) == IF n = 0 THEN 0 ELSE FieldSum(values, n - 1) + values[n]

MarkdownHeaderRows == 10
TextHeaderRows == 9

\* C10: both renderers emit a fixed number of header rows followed by one
\* row per pull request in input order, and the Files Changed / Additions /
\* Deletions totals read back from the summary are the sums over the list.
RowsAndTotalsMatchInput ==
    pc = "rendered" =>
        LET rows == output.rows
            h == IF output.markdown THEN MarkdownHeaderRows ELSE TextHeaderRows
            n == Len(pull_requests)
        IN /\ Len(rows) = h + n
           /\ \A i \in 1..n :
                 /\ Value(rows[h + i].cells[1]) = pull_requests[i].additions
                 /\ Value(rows[h + i].cells[2]) = pull_requests[i].deletions
                 /\ Value(rows[h + i].cells[3]) = pull_requests[i].files
                 /\ Value(rows[h + i].cells[4]) = pull_requests[i].number
           /\ Value(rows[h - 6].cells[2])
                 = FieldSum([i \in 1..n |-> pull_requests[i].files], n)
           /\ Value(rows[h - 5].cells[2])
                 = FieldSum([i \in 1..n |-> pull_requests[i].additions], n)
           /\ Value(rows[h - 4].cells[2])
                 = FieldSum([i \in 1..n |-> pull_requests[i].deletions], n)

\* A text report of several differing pull requests, one of them with a
\* value wider than its column.
RenderedSeveralRowsAsText ==
    /\ pc = "rendered"
    /\ ~output.markdown
    /\ Len(pull_requests) >= 2
    /\ pull_requests[1] # pull_requests[2]
    /\ pull_requests[1].deletions = 12345678
    /\ Len(output.rows) = TextHeaderRows + Len(pull_requests)

\* C11: another page is requested only if the most recent response reported
\* hasNextPage = TRUE (and the early stop has not fired): after a response
\* with hasNextPage = FALSE the call sends no further request, whatever the
\* nodes of that page are.
NoRequestAfterLastPage ==
    [][requests' # requests =>
          (last.kind = "none" \/ (last.kind = "page" /\ last.hasNextPage))]_vars

\* How many of the server's pull requests the for loop has gone through: the
\* cursor names the end of the page in hand, of which pending nodes remain
\* (the page past the end of the list is empty and carries no cursor).
Iterated ==
    IF cursor = Null
    THEN IF requests = <<>> THEN 0 ELSE Len(serverPRs)
    ELSE cursor.after - pending

ByAuthor(node) == EqualIgnoringCase(node.author.login, author)

AtOrBeforeStartSeen ==
    \E i \in 1..Iterated :
        ByAuthor(serverPRs[i]) /\ serverPRs[i].createdAt.text <= start_dt

\* C12: with pages served newest-first, once the loop has gone through a
\* pull request of the author created at or before the window start, no
\* further page is requested, whatever hasNextPage says; a pull request of
\* the author created at or after the end of a window (start before end)
\* leaves the loop set to continue and is not collected; a pull request of
\* another author changes neither the collected list nor the continuation.
EarlyStopAtOrBeforeStartOnly ==
    [][/\ AtOrBeforeStartSeen => requests' = requests
       /\ (pc = "nodes" /\ pending > 0 /\ pending' = pending - 1) =>
            LET node == serverPRs[Iterated + 1]
                created_at == node.createdAt.text
            IN /\ (ByAuthor(node) /\ created_at <= start_dt) => ~more'
               /\ (ByAuthor(node) /\ start_dt < end_dt /\ created_at >= end_dt) =>
                      (more' /\ prs' = prs)
               /\ ~ByAuthor(node) => (more' = more /\ prs' = prs)]_vars

\* A call over two pages that returned after a pull request of the author at
\* or before the start, on a page that reported hasNextPage = TRUE, having
\* gone past a pull request of the author at or after the end, and leaving
\* part of the server's list unrequested.
StoppedEarlyWithPagesLeft ==
    /\ pc = "ret"
    /\ AtOrBeforeStartSeen
    /\ last.kind = "page" /\ last.hasNextPage
    /\ Iterated < Len(serverPRs)
    /\ start_dt < end_dt
    /\ Len(requests) >= 2
    /\ \E i \in 1..Iterated :
           ByAuthor(serverPRs[i]) /\ serverPRs[i].createdAt.text >= end_dt

\* The place in the log of the first request for a repository of this name
\* (0 when there is none).
FirstRequestOf(log, name_) ==
    LET at == {i \in DOMAIN log : /\ log[i].kind = "pullRequests"
                                  /\ log[i].variables.reponame = name_}
    IN IF at = {} THEN 0 ELSE CHOOSE i \in at : \A j \in at : i <= j

RequestedRepos(log) ==
    {Repo(log[i].variables.repoowner, log[i].variables.reponame) :
        i \in {j \in DOMAIN log : log[j].kind = "pullRequests"}}

\* C13: get_stats sends its requests one after another: first the one
\* contributions request, and only after its answer was taken the pull
\* request queries; a repository of pr_repos is fetched by one call, whose
\* page requests are consecutive in the log; the first request of a call
\* carries no cursor and each later one the endCursor of the response just
\* before it; the list returned grows only by appending what a call returned,
\* so it is the per-repository results in the order the repositories were
\* fetched, and at the return every repository of pr_repos has been fetched.
RequestsStrictlySequential ==
    [][/\ requests' # requests =>
            LET n == Len(requests')
                q == requests'[n]
            IN /\ requests' = Append(requests, q)
               /\ IF requests = <<>>
                  THEN q.kind = "contributions"
                  ELSE /\ q.kind = "pullRequests"
                       /\ contribs # Null
                       /\ Repo(q.variables.repoowner, q.variables.reponame)
                              \in contribs.pr_repos
                       /\ IF last.kind = "none"
                          THEN /\ q.variables.cursor = Null
                               /\ Repo(q.variables.repoowner, q.variables.reponame)
                                      \notin RequestedRepos(requests)
                          ELSE /\ last.kind = "page"
                               /\ q.variables.cursor = last.endCursor
                               /\ requests[n - 1].kind = "pullRequests"
                               /\ requests[n - 1].variables.repoowner
                                      = q.variables.repoowner
                               /\ requests[n - 1].variables.reponame
                                      = q.variables.reponame
       /\ pull_requests' # pull_requests =>
            (pc = "ret" /\ pull_requests' = pull_requests \o result)
       /\ \A i, j \in DOMAIN pull_requests' :
            i < j => /\ FirstRequestOf(requests', pull_requests'[i].reponame) > 0
                     /\ FirstRequestOf(requests', pull_requests'[i].reponame)
                            <= FirstRequestOf(requests', pull_requests'[j].reponame)
       /\ pc' = "done" => RequestedRepos(requests') = contribs'.pr_repos]_vars

\* A finished run over two repositories, one of them fetched in two pages
\* with the second request carrying a cursor, that returned pull requests of
\* both.
ReturnedFromTwoRepositories ==
    /\ pc = "done"
    /\ Cardinality(contribs.pr_repos) = 2
    /\ \E i \in DOMAIN requests :
          requests[i].kind = "pullRequests" /\ requests[i].variables.cursor # Null
    /\ \E i, j \in DOMAIN pull_requests :
          pull_requests[i].reponame # pull_requests[j].reponame

\* C14: for a repository of finitely many pages whose last page reports
\* hasNextPage = FALSE, the call sends at most one request per existing page:
\* every request after the first names a place before the end of the list,
\* and no place is asked for twice.
AtMostOneRequestPerExistingPage ==
    /\ \A i \in DOMAIN requests :
          i = 1 \/ CursorPosition(requests[i].variables.cursor) < Len(serverPRs)
    /\ \A i, j \in DOMAIN requests :
          i # j => requests[i].variables.cursor # requests[j].variables.cursor

====
